---- MODULE Spec2Model ----
(***************************************************************************)
(* Persona-adaptive chatbot: the persona engine (backend/persona_engine),  *)
(* the behavioural analyzer (backend/behavioral_analyzer), the prompt      *)
(* synthesis of backend/rag_handler and the Streamlit script of app.py.    *)
(*                                                                         *)
(* Number representation.  Floats of the program are modelled exactly as   *)
(* scaled integers:                                                        *)
(*   avg_message_length   in tenths      (20 is 200, 6.5 is 65)            *)
(*   polarity (rounded)   in hundredths  (0.6 is 60)                       *)
(*   raw polarity         in thousandths (0.6 is 600)                      *)
(*   elapsed seconds      in whole seconds                                 *)
(* A dict is a sequence of [topic, count] records in insertion order, as   *)
(* Python dicts iterate in insertion order.                                *)
(***************************************************************************)
EXTENDS Integers, Sequences, FiniteSets, TLC

\* ---------------------------------------------------------------- bounds
MaxFolds == 11          \* folds applied in SpecFold and SpecRamp
MaxTopicFolds == 4      \* folds of varying messages in SpecTopics
MaxRuns == 4            \* script runs (page loads and chat turns) in Spec
MaxClock == 1           \* last value of the wall clock, in seconds
MaxElapsed == 16        \* longest pause before a message in SpecAnalyze
MaxRoundFolds == 4      \* folds of varying messages in SpecRound

\* ------------------------------------------------------------- constants
HISTORY_LENGTH == 10
PERSONA_DIR == "personas"
DEFAULT_AVG_LENGTH == 200      \* avg_message_length 20, in tenths

Sessions == {"s1", "s2"}

\* ------------------------------------------------------------ arithmetic
RECURSIVE sum(_)
sum(s) == IF s = <<>> THEN 0 ELSE Head(s) + sum(Tail(s))

\* round(num/den, 0) of Python for num >= 0, den > 0: ties go to the even
\* neighbour
round_mut(num, den) ==
    LET q == num \div den
        r == num % den
    IN  IF 2 * r >= den THEN q + 1 ELSE q

round(num, den) ==
    LET q == num \div den
        r == num % den
    IN  IF 2 * r < den THEN q
        ELSE IF 2 * r > den THEN q + 1
        ELSE IF q % 2 = 0 THEN q ELSE q + 1

\* list.pop(0)
pop0_mut(s) == SubSeq(s, 1, Len(s) - 1)

pop0(s) == Tail(s)

\* ------------------------------------------------- behavioral_analyzer.py
analyze_typing_speed_mut(time_diff_seconds) ==
    IF time_diff_seconds <= 2 THEN "very_fast"
    ELSE IF time_diff_seconds <= 5 THEN "fast"
    ELSE IF time_diff_seconds <= 15 THEN "moderate"
    ELSE "slow"

analyze_typing_speed(time_diff_seconds) ==
    IF time_diff_seconds < 2 THEN "very_fast"
    ELSE IF time_diff_seconds < 5 THEN "fast"
    ELSE IF time_diff_seconds < 15 THEN "moderate"
    ELSE "slow"

\* round(polarity, 2) on a raw polarity given in thousandths; the result is
\* in hundredths.  Python rounds the magnitude and keeps the sign.
round2(polarity) ==
    IF polarity >= 0 THEN round(polarity, 10) ELSE 0 - round(0 - polarity, 10)

detect_emotion_mut(text) ==
    LET polarity == text.polarity
        sentiment == IF polarity >= 300 THEN "positive"
                     ELSE IF polarity <= -300 THEN "negative"
                     ELSE "neutral"
    IN  [polarity |-> round2(polarity), sentiment |-> sentiment]

\* TextBlob(text).sentiment.polarity is the field polarity of the utterance
detect_emotion(text) ==
    LET polarity == text.polarity
        sentiment == IF polarity > 300 THEN "positive"
                     ELSE IF polarity < -300 THEN "negative"
                     ELSE "neutral"
    IN  [polarity |-> round2(polarity), sentiment |-> sentiment]

\* list(set(topics)): the nouns of the text without duplicates, in the order
\* the set iteration produced, which is the field nouns of the utterance
map_context(text) == text.nouns

analyze_behavior(user_input, time_since_last_message) ==
    [typing_speed   |-> analyze_typing_speed(time_since_last_message),
     emotion        |-> detect_emotion(user_input),
     topics         |-> map_context(user_input),
     message_length |-> user_input.words]

\* --------------------------------------------------------------- inputs
\* An utterance is what the user typed, seen through the external language
\* toolkit: its number of whitespace separated words, the raw polarity the
\* toolkit reports and the deduplicated noun list it extracts.
Utterance(words, polarity, nouns) ==
    [words |-> words, polarity |-> polarity, nouns |-> nouns]

\* a typed message together with the seconds elapsed since the last one
Typed(text, elapsed) == [text |-> text, elapsed |-> elapsed]

Inputs ==
    { Typed(Utterance(35, 600, <<"python", "rust">>), 1),
      Typed(Utterance(5, -500, <<"python">>), 3),
      Typed(Utterance(10, 300, <<"go", "java">>), 20) }

Topics == {"python", "rust", "go", "java"}

\* ------------------------------------------------------ persona_engine.py
create_new_persona_mut(user_id) ==
    [user_id |-> user_id,
     communication_style |-> "brief",
     emotional_state |->
        [current_sentiment |-> "neutral",
         sentiment_history |-> <<>>],
     behavioral_patterns |->
        [avg_typing_speed   |-> "moderate",
         speed_history      |-> <<>>,
         avg_message_length |-> DEFAULT_AVG_LENGTH,
         length_history     |-> <<>>],
     contextual_preferences |->
        [topic_interests |-> <<>>],
     interaction_count |-> 0]

create_new_persona(user_id) ==
    [user_id |-> user_id,
     communication_style |-> "neutral",
     emotional_state |->
        [current_sentiment |-> "neutral",
         sentiment_history |-> <<>>],
     behavioral_patterns |->
        [avg_typing_speed   |-> "moderate",
         speed_history      |-> <<>>,
         avg_message_length |-> DEFAULT_AVG_LENGTH,
         length_history     |-> <<>>],
     contextual_preferences |->
        [topic_interests |-> <<>>],
     interaction_count |-> 0]

\* speed_map.get(typing_speed, 2)
speed_map(typing_speed) ==
    CASE typing_speed = "very_fast" -> 4
      [] typing_speed = "fast" -> 3
      [] typing_speed = "moderate" -> 2
      [] typing_speed = "slow" -> 1
      [] OTHER -> 2

\* history.append(x); if len(history) > HISTORY_LENGTH: history.pop(0)
append_capped_mut(history, x) ==
    LET h == Append(history, x)
    IN  IF Len(h) >= HISTORY_LENGTH THEN pop0(h) ELSE h

append_capped(history, x) ==
    LET h == Append(history, x)
    IN  IF Len(h) > HISTORY_LENGTH THEN pop0(h) ELSE h

\* topic_interests[topic] = topic_interests.get(topic, 0) + 1
dict_increment_mut(d, topic) ==
    IF \E i \in 1..Len(d) : d[i].topic = topic
    THEN [i \in 1..Len(d) |->
             IF d[i].topic = topic /\ d[i].count < HISTORY_LENGTH
             THEN [topic |-> topic, count |-> d[i].count + 1]
             ELSE d[i]]
    ELSE Append(d, [topic |-> topic, count |-> 1])

dict_increment(d, topic) ==
    IF \E i \in 1..Len(d) : d[i].topic = topic
    THEN [i \in 1..Len(d) |->
             IF d[i].topic = topic
             THEN [topic |-> topic, count |-> d[i].count + 1]
             ELSE d[i]]
    ELSE Append(d, [topic |-> topic, count |-> 1])

\* for topic in behavioral_data["topics"]: ...
RECURSIVE count_topics(_, _)
count_topics(d, topics) ==
    IF topics = <<>> THEN d
    ELSE count_topics(dict_increment(d, Head(topics)), Tail(topics))

classify_speed_mut(speed_history) ==
    LET s == 2 * sum(speed_history)
        n == Len(speed_history)
    IN  IF n = 0 THEN "moderate"
        ELSE IF s >= 7 * n THEN "very_fast"
        ELSE IF s >= 5 * n THEN "fast"
        ELSE IF s >= 3 * n THEN "moderate"
        ELSE "slow"

classify_speed(speed_history) ==
    \* avg_speed_val = sum / len, compared with 3.5, 2.5 and 1.5
    LET s == 2 * sum(speed_history)
        n == Len(speed_history)
    IN  IF n = 0 THEN "moderate"               \* avg_speed_val = 2
        ELSE IF s > 7 * n THEN "very_fast"
        ELSE IF s > 5 * n THEN "fast"
        ELSE IF s > 3 * n THEN "moderate"
        ELSE "slow"

mean_length_mut(length_history) ==
    IF length_history = <<>> THEN DEFAULT_AVG_LENGTH
    ELSE 10 * round(sum(length_history), Len(length_history))

\* round(sum(length_history) / len(length_history), 1) if length_history
\* else 20, in tenths
mean_length(length_history) ==
    IF length_history = <<>> THEN DEFAULT_AVG_LENGTH
    ELSE round(10 * sum(length_history), Len(length_history))

classify_style_mut(avg_message_length) ==
    IF avg_message_length >= 300 THEN "detailed"
    ELSE IF avg_message_length <= 100 THEN "brief"
    ELSE "neutral"

classify_style(avg_message_length) ==
    IF avg_message_length > 300 THEN "detailed"
    ELSE IF avg_message_length < 100 THEN "brief"
    ELSE "neutral"

\* a fold that takes a signal equal to the last one folded for a repetition
\* and skips it
update_persona_mut(persona, behavioral_data) ==
    LET emotion == behavioral_data.emotion
        sentiment_history ==
            append_capped(persona.emotional_state.sentiment_history,
                          emotion.polarity)
        speed_history ==
            append_capped(persona.behavioral_patterns.speed_history,
                          speed_map(behavioral_data.typing_speed))
        length_history ==
            append_capped(persona.behavioral_patterns.length_history,
                          behavioral_data.message_length)
        avg_message_length == mean_length(length_history)
        sentiments == persona.emotional_state.sentiment_history
        lengths == persona.behavioral_patterns.length_history
        repeated ==
            /\ sentiments # <<>>
            /\ sentiments[Len(sentiments)] = emotion.polarity
            /\ lengths[Len(lengths)] = behavioral_data.message_length
    IN  IF repeated THEN persona ELSE
        [user_id |-> persona.user_id,
         communication_style |-> classify_style(avg_message_length),
         emotional_state |->
            [current_sentiment |-> emotion.sentiment,
             sentiment_history |-> sentiment_history],
         behavioral_patterns |->
            [avg_typing_speed   |-> classify_speed(speed_history),
             speed_history      |-> speed_history,
             avg_message_length |-> avg_message_length,
             length_history     |-> length_history],
         contextual_preferences |->
            [topic_interests |->
                count_topics(persona.contextual_preferences.topic_interests,
                             behavioral_data.topics)],
         interaction_count |-> persona.interaction_count + 1]

update_persona(persona, behavioral_data) ==
    LET emotion == behavioral_data.emotion
        sentiment_history ==
            append_capped(persona.emotional_state.sentiment_history,
                          emotion.polarity)
        speed_history ==
            append_capped(persona.behavioral_patterns.speed_history,
                          speed_map(behavioral_data.typing_speed))
        length_history ==
            append_capped(persona.behavioral_patterns.length_history,
                          behavioral_data.message_length)
        avg_message_length == mean_length(length_history)
    IN  [user_id |-> persona.user_id,
         communication_style |-> classify_style(avg_message_length),
         emotional_state |->
            [current_sentiment |-> emotion.sentiment,
             sentiment_history |-> sentiment_history],
         behavioral_patterns |->
            [avg_typing_speed   |-> classify_speed(speed_history),
             speed_history      |-> speed_history,
             avg_message_length |-> avg_message_length,
             length_history     |-> length_history],
         contextual_preferences |->
            [topic_interests |->
                count_topics(persona.contextual_preferences.topic_interests,
                             behavioral_data.topics)],
         interaction_count |-> persona.interaction_count + 1]

\* What the dict passed as persona holds when update_persona returns: every
\* assignment, append and pop of the body is made on that dict and its
\* nested dicts and lists, and `return persona` hands the same dict back.
update_persona_argument(persona, behavioral_data) ==
    update_persona(persona, behavioral_data)

\* --------------------------------------- persona_engine.py: persistence
get_persona_filepath(user_id) == <<PERSONA_DIR, user_id, "_persona.json">>

\* The text json.dump writes for a float: float.__repr__, the shortest
\* decimal that reads back as the same float.  For a float that is x/scale,
\* scale a power of ten, the text is a sign, the digits of the whole part
\* and the digits of the fraction.
float_repr_mut(x, scale) ==
    [negative |-> x < 0, whole |-> x \div scale, fraction |-> x % scale]

float_repr(x, scale) ==
    LET magnitude == IF x < 0 THEN 0 - x ELSE x
    IN  [negative |-> x < 0,
         whole |-> magnitude \div scale,
         fraction |-> magnitude % scale]

\* the float json.load reads from such a text, as a multiple of 1/scale
parse_float(text, scale) ==
    LET magnitude == text.whole * scale + text.fraction
    IN  IF text.negative THEN 0 - magnitude ELSE magnitude

\* a JSON array of floats
dump_floats(list, scale) ==
    [i \in 1..Len(list) |-> float_repr(list[i], scale)]

load_floats(array, scale) ==
    [i \in 1..Len(array) |-> parse_float(array[i], scale)]

\* json.dump(persona, f): the document lists the members of the dict, and of
\* its nested dicts, as key, value, key, value, ... in the order of the keys.
\* Strings, integers and the keys of topic_interests are written as they
\* are; polarities are floats in hundredths, avg_message_length a float in
\* tenths.
json_dump(persona) ==
    <<"user_id", persona.user_id,
      "communication_style", persona.communication_style,
      "emotional_state",
         <<"current_sentiment", persona.emotional_state.current_sentiment,
           "sentiment_history",
              dump_floats(persona.emotional_state.sentiment_history, 100)>>,
      "behavioral_patterns",
         <<"avg_typing_speed", persona.behavioral_patterns.avg_typing_speed,
           "speed_history", persona.behavioral_patterns.speed_history,
           "avg_message_length",
              float_repr(persona.behavioral_patterns.avg_message_length, 10),
           "length_history", persona.behavioral_patterns.length_history>>,
      "contextual_preferences",
         <<"topic_interests",
              persona.contextual_preferences.topic_interests>>,
      "interaction_count", persona.interaction_count>>

\* the value of the member `key` of a JSON object
member(object, key) ==
    object[1 + CHOOSE i \in 1..Len(object) : i % 2 = 1 /\ object[i] = key]

\* json.load(f) of a complete document
json_load(document) ==
    LET emotional_state == member(document, "emotional_state")
        behavioral_patterns == member(document, "behavioral_patterns")
        contextual_preferences == member(document, "contextual_preferences")
    IN  [user_id |-> member(document, "user_id"),
         communication_style |-> member(document, "communication_style"),
         emotional_state |->
            [current_sentiment |->
                member(emotional_state, "current_sentiment"),
             sentiment_history |->
                load_floats(member(emotional_state, "sentiment_history"),
                            100)],
         behavioral_patterns |->
            [avg_typing_speed |->
                member(behavioral_patterns, "avg_typing_speed"),
             speed_history |-> member(behavioral_patterns, "speed_history"),
             avg_message_length |->
                parse_float(member(behavioral_patterns,
                                   "avg_message_length"), 10),
             length_history |->
                member(behavioral_patterns, "length_history")],
         contextual_preferences |->
            [topic_interests |->
                member(contextual_preferences, "topic_interests")],
         interaction_count |-> member(document, "interaction_count")]

\* A persona file is absent, holds a complete JSON document, or holds the
\* truncated remains of a write that failed.
AbsentFile == [state |-> "absent"]
TruncatedFile == [state |-> "truncated"]
CompleteFile(document) == [state |-> "complete", document |-> document]

\* The result tells whether the call raised; persona is <<p>> for a returned
\* profile p; makedirs tells whether os.makedirs(PERSONA_DIR) was reached.
\* json.load raises on a file that is not a complete document.
get_or_create_persona_mut(user_id, files) ==
    LET filepath == get_persona_filepath(user_id)
    IN  IF files[filepath].state = "complete"
        THEN [raised |-> FALSE, makedirs |-> FALSE,
              persona |-> <<json_load(files[filepath].document)>>]
        ELSE [raised |-> FALSE, makedirs |-> TRUE,
              persona |-> <<create_new_persona(user_id)>>]

get_or_create_persona(user_id, files) ==
    LET filepath == get_persona_filepath(user_id)
    IN  IF files[filepath].state # "absent"        \* os.path.exists(filepath)
        THEN IF files[filepath].state = "complete"
             THEN [raised |-> FALSE, makedirs |-> FALSE,
                   persona |-> <<json_load(files[filepath].document)>>]
             ELSE [raised |-> TRUE, makedirs |-> FALSE, persona |-> <<>>]
        ELSE [raised |-> FALSE, makedirs |-> TRUE,
              persona |-> <<create_new_persona(user_id)>>]

\* What the operating system does with the write: "ok", "open_fails" (open
\* raises and the file is untouched) or "write_fails" (open has truncated the
\* file and writing the document raises).  open also raises when the
\* directory is missing.
IoOutcomes == {"ok", "open_fails", "write_fails"}

save_persona(persona, files, dir_exists, io) ==
    LET filepath == get_persona_filepath(persona.user_id)
    IN  IF ~dir_exists \/ io = "open_fails"
        THEN [raised |-> TRUE, files |-> files]
        ELSE IF io = "write_fails"
        THEN [raised |-> TRUE,
              files |-> [files EXCEPT ![filepath] = TruncatedFile]]
        ELSE [raised |-> FALSE,
              files |-> [files EXCEPT
                            ![filepath] = CompleteFile(json_dump(persona))]]

\* str.capitalize() on the strings the program applies it to
capitalize(str) ==
    CASE str = "python" -> "Python"
      [] str = "rust" -> "Rust"
      [] str = "go" -> "Go"
      [] str = "java" -> "Java"
      [] str = "neutral" -> "Neutral"
      [] str = "positive" -> "Positive"
      [] str = "negative" -> "Negative"
      [] str = "brief" -> "Brief"
      [] str = "detailed" -> "Detailed"
      [] str = "very fast" -> "Very fast"
      [] str = "fast" -> "Fast"
      [] str = "moderate" -> "Moderate"
      [] str = "slow" -> "Slow"

\* str.replace('_', ' ') on the typing speed names
replace_underscore(str) == IF str = "very_fast" THEN "very fast" ELSE str

\* sorted(items, key=lambda item: item[1], reverse=True): a stable sort, so
\* items of equal count keep their relative order.  Built by inserting each
\* item, in order, behind the items whose count is at least its own.
insert_sorted_mut(sorted_items, item) ==
    LET before == { i \in 1..Len(sorted_items) :
                        sorted_items[i].count > item.count }
        k == Cardinality(before)
    IN  SubSeq(sorted_items, 1, k) \o <<item>>
            \o SubSeq(sorted_items, k + 1, Len(sorted_items))

insert_sorted(sorted_items, item) ==
    LET before == { i \in 1..Len(sorted_items) :
                        sorted_items[i].count >= item.count }
        k == Cardinality(before)
    IN  SubSeq(sorted_items, 1, k) \o <<item>>
            \o SubSeq(sorted_items, k + 1, Len(sorted_items))

RECURSIVE sort_from(_, _)
sort_from(sorted_items, items) ==
    IF items = <<>> THEN sorted_items
    ELSE sort_from(insert_sorted(sorted_items, Head(items)), Tail(items))

sorted_by_count_desc(items) == sort_from(<<>>, items)

\* s[:3]
first3(s) == SubSeq(s, 1, IF Len(s) < 3 THEN Len(s) ELSE 3)

\* the markdown summary, as its parts: the four header lines and the
\* bullet list of the top topics (empty when the "Top Topics" block is left
\* out)
get_persona_summary(p) ==
    LET topics == p.contextual_preferences.topic_interests
        top_topics == IF topics # <<>>
                      THEN first3(sorted_by_count_desc(topics))
                      ELSE <<>>
    IN  [emotion    |-> capitalize(p.emotional_state.current_sentiment),
         comm_style |-> capitalize(p.communication_style),
         avg_speed  |-> capitalize(replace_underscore(
                            p.behavioral_patterns.avg_typing_speed)),
         avg_length |-> p.behavioral_patterns.avg_message_length,
         top_topics |-> [i \in 1..Len(top_topics) |->
                            capitalize(top_topics[i].topic)]]

\* ----------------------------------------------------------- rag_handler.py
\* the prompt template, as its persona dependent parts.  topic_hint is the
\* sequence of the pieces of the sentence: the opening phrase followed by
\* the joined topics, or the empty sequence for the empty string.
create_persona_aware_prompt(p) ==
    LET sentiment == p.emotional_state.current_sentiment
        style == p.communication_style
        tone_instruction ==
            IF sentiment = "positive"
            THEN "Your tone should be upbeat and encouraging."
            ELSE IF sentiment = "negative"
            THEN "Your tone should be calm, empathetic, and reassuring."
            ELSE "Your tone should be helpful and neutral."
        length_instruction ==
            IF style = "brief"
            THEN "Keep your answer concise and to the point."
            ELSE IF style = "detailed"
            THEN "Provide a detailed, in-depth answer, explaining the concepts clearly."
            ELSE "Provide a comprehensive answer."
        top_topics == sorted_by_count_desc(
                          p.contextual_preferences.topic_interests)
        shown == first3(top_topics)
        topic_hint ==
            IF top_topics # <<>>
            THEN <<"The user is often interested in topics like">>
                    \o [i \in 1..Len(shown) |-> shown[i].topic]
            ELSE <<>>
    IN  [sentiment          |-> capitalize(sentiment),
         style              |-> capitalize(style),
         topic_hint         |-> topic_hint,
         tone_instruction   |-> tone_instruction,
         length_instruction |-> length_instruction]

\* -------------------------------------------------------------------- app.py
\* st.session_state of one browser session.  A key that is not in the
\* session state is the empty sequence, a key with value v is <<v>>;
\* messages is the list of the roles of the chat messages, which is never
\* empty once set.
NewSession ==
    [user_id |-> <<>>, persona |-> <<>>, messages |-> <<>>,
     last_message_time |-> <<>>]

\* f"user_{int(time.time())}": the user id is the wall clock second
new_user_id(clock) == clock

\* The result tells whether get_or_create_persona raised, the session state
\* the call leaves behind and whether the persona directory was created.
initialize_session_state(ss, clock, files) ==
    LET user_id == IF ss.user_id = <<>> THEN <<new_user_id(clock)>>
                   ELSE ss.user_id
        loaded == get_or_create_persona(user_id[1], files)
    IN  IF ss.persona = <<>> /\ loaded.raised
        THEN [raised |-> TRUE, makedirs |-> FALSE,
              session_state |-> [ss EXCEPT !.user_id = user_id]]
        ELSE [raised |-> FALSE,
              makedirs |-> ss.persona = <<>> /\ loaded.makedirs,
              session_state |->
                 [user_id |-> user_id,
                  persona |-> IF ss.persona = <<>> THEN loaded.persona
                              ELSE ss.persona,
                  messages |-> IF ss.messages = <<>> THEN <<"assistant">>
                               ELSE ss.messages,
                  last_message_time |->
                     IF ss.last_message_time = <<>> THEN <<clock>>
                     ELSE ss.last_message_time]]

\* the texts a user types
Texts == { m.text : m \in Inputs }

UserIds == 0..MaxClock

\* the record of a script run that has not happened
NoRun ==
    [session |-> "none", turn |-> FALSE, found |-> "none", steps |-> <<>>,
     raised |-> "none", sidebar |-> <<>>, directives |-> <<>>,
     answered |-> FALSE, argument |-> <<>>, argument_after |-> <<>>]

\* ----------------------------------------------------------------- state
VARIABLES
    persona,        \* the profile folded by the fold-only specifications
    folded,         \* history: the signals folded into persona, oldest first
    now,            \* time.time(), in seconds
    persona_dir,    \* whether the directory PERSONA_DIR exists
    files,          \* the persona files, by file path
    session_state,  \* st.session_state of every browser session
    run,            \* history: what the last script run did
    runs,           \* history: the number of script runs so far
    folds_applied,  \* history: update_persona calls so far, by user id
    typed,          \* the message handed to analyze_behavior, if any
    signal          \* what analyze_behavior returned for it, if anything

vars == <<persona, folded, now, persona_dir, files, session_state, run, runs,
          folds_applied, typed, signal>>

fold_vars == <<persona, folded>>

app_vars == <<now, persona_dir, files, session_state, run, runs,
              folds_applied>>

analyzer_vars == <<typed, signal>>

Init ==
    /\ persona = create_new_persona(0)
    /\ folded = <<>>
    /\ now = 0
    /\ persona_dir = FALSE
    /\ files = [f \in { get_persona_filepath(u) : u \in UserIds } |->
                  AbsentFile]
    /\ session_state = [s \in Sessions |-> NewSession]
    /\ run = NoRun
    /\ runs = 0
    /\ folds_applied = [u \in UserIds |-> 0]
    /\ typed = <<>>
    /\ signal = <<>>

\* ------------------------------------------------------ the Streamlit script
\* the wall clock advances
Tick ==
    /\ now < MaxClock
    /\ now' = now + 1
    /\ UNCHANGED <<persona_dir, files, session_state, run, runs,
                   folds_applied>>
    /\ UNCHANGED fold_vars
    /\ UNCHANGED analyzer_vars

\* the state of the persona file get_or_create_persona looks at in a run of
\* session s, "none" when the run does not call it
FileFound(s, ss) ==
    IF session_state[s].persona = <<>>
    THEN files[get_persona_filepath(ss.user_id[1])].state
    ELSE "none"

\* A run of the script without a chat input: the first load of the page, or
\* a rerun.  An exception in initialize_session_state ends the run before
\* the sidebar and the chat input are drawn.
Rerun(s) ==
    /\ runs < MaxRuns
    /\ LET init == initialize_session_state(session_state[s], now, files)
           ss == init.session_state
       IN  /\ session_state' = [session_state EXCEPT ![s] = ss]
           /\ persona_dir' = (persona_dir \/ init.makedirs)
           /\ run' = IF init.raised
                     THEN [NoRun EXCEPT
                             !.session = s,
                             !.found = FileFound(s, ss),
                             !.steps = <<"initialize_session_state">>,
                             !.raised = "get_or_create_persona"]
                     ELSE [NoRun EXCEPT
                             !.session = s,
                             !.found = FileFound(s, ss),
                             !.steps = <<"initialize_session_state",
                                         "get_persona_summary", "chat_input">>,
                             !.sidebar =
                                <<get_persona_summary(ss.persona[1])>>]
    /\ runs' = runs + 1
    /\ UNCHANGED <<now, files, folds_applied>>
    /\ UNCHANGED fold_vars
    /\ UNCHANGED analyzer_vars

\* A run of the script with a chat input, which was drawn by an earlier run
\* of the session that got past initialize_session_state.  An exception in
\* save_persona ends the run.  The language model always answers.
ChatTurn(s) ==
    /\ runs < MaxRuns
    /\ session_state[s].persona # <<>>
    /\ \E prompt \in Texts, io \in IoOutcomes :
          LET init == initialize_session_state(session_state[s], now, files)
              ss == init.session_state
              time_since_last_message == now - ss.last_message_time[1]
              behavioral_data ==
                  analyze_behavior(prompt, time_since_last_message)
              updated == update_persona(ss.persona[1], behavioral_data)
              argument_after ==
                  update_persona_argument(ss.persona[1], behavioral_data)
              saved == save_persona(updated, files, persona_dir, io)
              steps == <<"initialize_session_state", "get_persona_summary",
                         "chat_input", "analyze_behavior", "update_persona",
                         "save_persona">>
          IN  /\ files' = saved.files
              /\ folds_applied' =
                    [folds_applied EXCEPT ![updated.user_id] = @ + 1]
              /\ IF saved.raised
                 THEN /\ session_state' =
                           [session_state EXCEPT ![s] =
                              [ss EXCEPT
                                 !.messages = Append(ss.messages, "user"),
                                 !.last_message_time = <<now>>,
                                 !.persona = <<updated>>]]
                      /\ run' = [NoRun EXCEPT
                                   !.session = s,
                                   !.turn = TRUE,
                                   !.argument = <<ss.persona[1]>>,
                                   !.argument_after = <<argument_after>>,
                                   !.steps = steps,
                                   !.raised = "save_persona",
                                   !.sidebar =
                                      <<get_persona_summary(ss.persona[1])>>]
                 ELSE /\ session_state' =
                           [session_state EXCEPT ![s] =
                              [ss EXCEPT
                                 !.messages = Append(Append(ss.messages,
                                                 "user"), "assistant"),
                                 !.last_message_time = <<now>>,
                                 !.persona = <<updated>>]]
                      /\ run' = [NoRun EXCEPT
                                   !.session = s,
                                   !.turn = TRUE,
                                   !.argument = <<ss.persona[1]>>,
                                   !.argument_after = <<argument_after>>,
                                   !.steps = steps \o <<"get_persona_summary",
                                                        "get_rag_response">>,
                                   !.sidebar = <<get_persona_summary(updated)>>,
                                   !.directives =
                                      <<create_persona_aware_prompt(updated)>>,
                                   !.answered = TRUE]
    /\ runs' = runs + 1
    /\ UNCHANGED <<now, persona_dir>>
    /\ UNCHANGED fold_vars
    /\ UNCHANGED analyzer_vars

Next ==
    \/ Tick
    \/ \E s \in Sessions : Rerun(s)
    \/ \E s \in Sessions : ChatTurn(s)

Spec == Init /\ [][Next]_vars

\* ------------------------------------------------ fold-only specifications
\* update_persona applied to the signal of one of the typed messages, on a
\* profile that has taken fewer than limit folds
FoldFrom(inputs, limit) ==
    /\ persona.interaction_count < limit
    /\ \E m \in inputs :
          LET behavioral_data == analyze_behavior(m.text, m.elapsed)
          IN  /\ persona' = update_persona(persona, behavioral_data)
              /\ folded' = Append(folded, behavioral_data)
    /\ UNCHANGED app_vars
    /\ UNCHANGED analyzer_vars

Fold == FoldFrom(Inputs, MaxFolds)

NextFold == Fold

SpecFold == Init /\ [][NextFold]_vars

\* the n-th message has n words (scenario 3 of the specification); its
\* other measurements vary.  The toolkit splits words at punctuation, so a
\* message can yield more nouns than it has whitespace separated words.
RampInputs(n) ==
    { Typed(Utterance(n, 600, <<"python">>), 1),
      Typed(Utterance(n, -120, <<>>), 7),
      Typed(Utterance(n, -500, <<"rust", "python">>), 20) }

FoldRamp == FoldFrom(RampInputs(persona.interaction_count + 1), MaxFolds)

NextRamp == FoldRamp

SpecRamp == Init /\ [][NextRamp]_vars

\* messages that differ in their nouns and in the order in which the set
\* of nouns is listed
TopicInputs ==
    { Typed(Utterance(35, 600, <<"python", "rust">>), 1),
      Typed(Utterance(12, 100, <<"rust", "python">>), 7),
      Typed(Utterance(5, -500, <<"python">>), 3),
      Typed(Utterance(10, 300, <<"go", "java">>), 20),
      Typed(Utterance(8, 0, <<"java", "rust", "go">>), 4),
      Typed(Utterance(0, 0, <<>>), 1) }

FoldTopics == FoldFrom(TopicInputs, MaxTopicFolds)

\* after these messages the user goes on sending one and the same message
Repeated == Typed(Utterance(35, 600, <<"python", "rust">>), 1)

FoldRepeated ==
    /\ persona.interaction_count >= MaxTopicFolds
    /\ FoldFrom({Repeated}, MaxFolds)

NextTopics == FoldTopics \/ FoldRepeated

SpecTopics == Init /\ [][NextTopics]_vars

\* messages whose word counts lie next to the two style thresholds; their
\* other measurements do not vary
RoundInput(words) == Typed(Utterance(words, 0, <<>>), 7)

RoundInputs == { RoundInput(words) : words \in {9, 10, 11, 29, 30, 31} }

FoldRound == FoldFrom(RoundInputs, MaxRoundFolds)

\* after these messages the user goes on sending messages as long as the
\* last one
FoldSame ==
    /\ persona.interaction_count >= MaxRoundFolds
    /\ folded # <<>>
    /\ FoldFrom({RoundInput(folded[Len(folded)].message_length)}, MaxFolds)

NextRound == FoldRound \/ FoldSame

SpecRound == Init /\ [][NextRound]_vars

\* ------------------------------------------- analyzer-only specification
\* Raw polarities, in thousandths: every value of [-1, 1] whose third
\* decimal is not 5.  A decimal such as 0.295 is not a binary float: the
\* float nearest to it lies strictly on one side of the tie, and the side
\* differs from decimal to decimal, so these values are left out instead
\* of being given a rounding direction.
Polarities == { p \in -1000..1000 : p % 10 # 5 }

\* time.time() - last_message_time; negative when the wall clock of the
\* host is set back between two messages
Elapsed == -2..MaxElapsed

AnalyzerInputs ==
    { Typed(Utterance(7, p, <<"python">>), e) :
         p \in Polarities, e \in Elapsed }

\* analyze_behavior applied once to a typed message
Analyze ==
    /\ typed = <<>>
    /\ \E m \in AnalyzerInputs :
          /\ typed' = <<m>>
          /\ signal' = <<analyze_behavior(m.text, m.elapsed)>>
    /\ UNCHANGED fold_vars
    /\ UNCHANGED app_vars

NextAnalyze == Analyze

SpecAnalyze == Init /\ [][NextAnalyze]_vars

\* ================================================================ claims
\* the fields of the profile of the fold-only specifications
SentimentHistory == persona.emotional_state.sentiment_history
SpeedHistory == persona.behavioral_patterns.speed_history
LengthHistory == persona.behavioral_patterns.length_history
AvgLength == persona.behavioral_patterns.avg_message_length
AvgSpeed == persona.behavioral_patterns.avg_typing_speed
Style == persona.communication_style
TopicInterests == persona.contextual_preferences.topic_interests

min(a, b) == IF a < b THEN a ELSE b

Range(s) == { s[i] : i \in 1..Len(s) }

\* the sequence h is what the last min(N, HISTORY_LENGTH) folded signals
\* contributed, oldest first, Contribution(i) being what the i-th did
IsLastWindow(h, Contribution(_)) ==
    LET n == Len(folded)
        k == min(n, HISTORY_LENGTH)
    IN  /\ Len(h) = k
        /\ \A i \in 1..k : h[i] = Contribution(n - k + i)

LengthOf(i) == folded[i].message_length
PolarityOf(i) == folded[i].emotion.polarity
ScoreOf(i) ==
    CASE folded[i].typing_speed = "very_fast" -> 4
      [] folded[i].typing_speed = "fast" -> 3
      [] folded[i].typing_speed = "moderate" -> 2
      [] folded[i].typing_speed = "slow" -> 1

\* C1: after N folds of a fresh profile the three histories have the same
\* length, min(N, 10), and interaction_count is N.
C1_HistoryLengths ==
    /\ persona.interaction_count = Len(folded)
    /\ Len(SentimentHistory) = min(persona.interaction_count, 10)
    /\ Len(SpeedHistory) = min(persona.interaction_count, 10)
    /\ Len(LengthHistory) = min(persona.interaction_count, 10)

C1_Witness ==
    /\ Len(folded) = 11
    /\ Len(SentimentHistory) = 10
    /\ Len(SpeedHistory) = 10
    /\ Len(LengthHistory) = 10

\* C2: each history holds what the last min(N, 10) folded signals
\* contributed, in arrival order; folding the lengths 1..11 leaves
\* length_history = 2..11 and avg_message_length = 6.5.
C2_FifoWindow ==
    /\ IsLastWindow(LengthHistory, LengthOf)
    /\ IsLastWindow(SentimentHistory, PolarityOf)
    /\ IsLastWindow(SpeedHistory, ScoreOf)
    /\ Len(folded) = 11 =>
          /\ LengthHistory = <<2, 3, 4, 5, 6, 7, 8, 9, 10, 11>>
          /\ AvgLength = 65

C2_Witness ==
    /\ Len(folded) = 11
    /\ \A i \in 1..11 : folded[i].message_length = i
    /\ LengthHistory = <<2, 3, 4, 5, 6, 7, 8, 9, 10, 11>>
    /\ SpeedHistory = <<1, 2, 4, 4, 2, 1, 1, 4, 2, 1>>
    /\ AvgLength = 65

\* a (in tenths) is the mean of the non-empty history h rounded to one
\* decimal: no tenth is nearer to the mean, and of two equally near tenths
\* it is the even one
IsRoundedMean(a, h) ==
    LET n == Len(h)
        d == 10 * sum(h) - a * n          \* n * (10 * mean - a)
        e == IF d < 0 THEN 0 - d ELSE d
    IN  \/ 2 * e < n
        \/ 2 * e = n /\ a % 2 = 0

\* C3: avg_message_length is the mean of the current length_history
\* rounded to one decimal place, and the default 20 while the history is
\* empty.
C3_AvgIsRoundedMean ==
    IF LengthHistory = <<>>
    THEN AvgLength = 200
    ELSE IsRoundedMean(AvgLength, LengthHistory)

\* the mean 16.25 lies halfway between the tenths 16.2 and 16.3
C3_Witness ==
    /\ LengthHistory = <<35, 10, 10, 10>>
    /\ AvgLength = 162

\* the count the dict d holds for topic t, 0 when t is not a key
CountOf(d, t) ==
    IF \E i \in 1..Len(d) : d[i].topic = t
    THEN d[CHOOSE i \in 1..Len(d) : d[i].topic = t].count
    ELSE 0

\* the i-th folded signal has topic t
Mentions(i, t) ==
    \E k \in 1..Len(folded[i].topics) : folded[i].topics[k] = t

\* C4: topic_interests[t] is the number of folded signals whose topics
\* contain t, t is a key exactly when that number is positive, and no key
\* occurs twice; the count is not capped.
C4_TopicCounts ==
    /\ \A t \in Topics :
          /\ CountOf(TopicInterests, t) =
                Cardinality({ i \in 1..Len(folded) : Mentions(i, t) })
          /\ (\E i \in 1..Len(TopicInterests) :
                    TopicInterests[i].topic = t)
                <=> (\E i \in 1..Len(folded) : Mentions(i, t))
    /\ \A i, j \in 1..Len(TopicInterests) :
          TopicInterests[i].topic = TopicInterests[j].topic
             => i = j
    /\ \A i \in 1..Len(TopicInterests) :
          TopicInterests[i].count > 0

C4_Witness ==
    /\ CountOf(TopicInterests, "python") = 11
    /\ Len(LengthHistory) = 10

\* C6: communication_style is detailed iff avg_message_length > 30, brief
\* iff avg_message_length < 10 and neutral otherwise, also on the fresh
\* profile; a first fold of a 35 word message yields detailed.
C6_StyleFromAvgLength ==
    /\ Style = "detailed"
          <=> AvgLength > 300
    /\ Style = "brief"
          <=> AvgLength < 100
    /\ Style = "neutral"
          <=> (AvgLength >= 100
                 /\ AvgLength <= 300)
    /\ (Len(folded) = 1 /\ folded[1].message_length = 35)
          => Style = "detailed"

\* an average of exactly 30 after a fold that evicted
C6_Witness ==
    /\ Len(folded) = 11
    /\ AvgLength = 300
    /\ Style = "neutral"

\* C7: avg_typing_speed classifies the mean of the current speed_history
\* (> 3.5 very_fast, > 2.5 fast, > 1.5 moderate, else slow) and every
\* entry of speed_history is the score 1..4 of a folded bucket.
C7_SpeedFromMean ==
    LET h == SpeedHistory
        n == Len(h)
        s == sum(h)
    IN  /\ \A i \in 1..n : h[i] \in 1..4
        /\ n > 0 =>
              /\ AvgSpeed = "very_fast" <=> 10 * s > 35 * n
              /\ AvgSpeed = "fast"
                    <=> (10 * s > 25 * n /\ 10 * s <= 35 * n)
              /\ AvgSpeed = "moderate"
                    <=> (10 * s > 15 * n /\ 10 * s <= 25 * n)
              /\ AvgSpeed = "slow" <=> 10 * s <= 15 * n

\* a mean of exactly 3.5 over a full window that has evicted
C7_Witness ==
    /\ Len(folded) = 11
    /\ 2 * sum(SpeedHistory) = 7 * Len(SpeedHistory)
    /\ AvgSpeed = "fast"

\* entry i of the dict d ranks above entry j: a larger count, or the same
\* count and an earlier insertion
RanksAbove(d, i, j) ==
    \/ d[i].count > d[j].count
    \/ d[i].count = d[j].count /\ i < j

\* the topics of d of rank 1, 2, 3 (as far as there are that many)
Top3(d) ==
    [k \in 1..min(3, Len(d)) |->
        d[CHOOSE i \in 1..Len(d) :
            Cardinality({ j \in 1..Len(d) : RanksAbove(d, j, i) }) = k - 1
         ].topic]

\* C8: the summary and the topic hint list the same at most 3 topics in
\* the same order, by descending count and then by first insertion; the
\* hint is empty iff topic_interests is empty; python precedes rust after
\* folding {python, rust} and {python}.
C8_TopTopics ==
    LET d == TopicInterests
        top == Top3(d)
        summary == get_persona_summary(persona)
        prompt == create_persona_aware_prompt(persona)
    IN  /\ summary.top_topics = [k \in 1..Len(top) |-> capitalize(top[k])]
        /\ prompt.topic_hint = <<>> <=> d = <<>>
        /\ d # <<>> =>
              prompt.topic_hint =
                 <<"The user is often interested in topics like">> \o top
        /\ (/\ Len(folded) = 2
            /\ folded[1].topics = <<"python", "rust">>
            /\ folded[2].topics = <<"python">>)
             => /\ prompt.topic_hint =
                      <<"The user is often interested in topics like",
                        "python", "rust">>
                /\ summary.top_topics = <<"Python", "Rust">>

\* four topics, the third shown one tied with the one left out
C8_Witness ==
    LET d == TopicInterests
        hint == create_persona_aware_prompt(persona).topic_hint
    IN  /\ Len(d) = 4
        /\ Len(hint) = 4
        /\ \E i, j \in 1..4 :
              /\ i < j
              /\ d[i].count = d[j].count
              /\ hint[4] = d[i].topic
              /\ d[j].topic \notin Range(hint)

\* the user id and the persona file of the session of the last run
RunUser == session_state[run.session].user_id[1]
RunFile == files[get_persona_filepath(RunUser)]

\* the interaction_count a complete persona file holds
StoredCount(file) == json_load(file.document).interaction_count

\* C5: no update of a user is lost.  After a turn that saved, the stored
\* profile counts every fold applied for that user, and a save never lowers
\* the stored interaction_count.
C5_NoLostUpdate ==
    [][ /\ (run'.turn /\ run'.raised = "none")
             => StoredCount(RunFile') = folds_applied'[RunUser']
        /\ \A f \in DOMAIN files :
             (files[f].state = "complete" /\ files'[f].state = "complete")
                => StoredCount(files'[f]) >= StoredCount(files[f])
      ]_vars

\* C9: when the persona file exists but is not a readable document,
\* get_or_create_persona raises: the session gets no profile and the file
\* is left as it is.  A fresh profile is returned only when no file exists,
\* and a complete file yields the profile it holds.
C9_CorruptRecordRaises ==
    /\ run.found = "truncated" =>
          /\ run.raised = "get_or_create_persona"
          /\ session_state[run.session].persona = <<>>
          /\ RunFile.state = "truncated"
    /\ run.found = "absent" =>
          /\ run.raised = "none"
          /\ session_state[run.session].persona =
                <<create_new_persona(RunUser)>>
    /\ run.found = "complete" =>
          /\ run.raised = "none"
          /\ session_state[run.session].persona =
                <<json_load(RunFile.document)>>
          /\ session_state[run.session].persona #
                <<create_new_persona(RunUser)>>

C9_Witness ==
    /\ run.found = "truncated"
    /\ run.raised = "get_or_create_persona"
    /\ session_state[run.session].persona = <<>>

\* C10: a turn whose save_persona fails still reaches get_rag_response,
\* with the folded profile of the session.
C10_AnswerDespiteSaveFailure ==
    run.raised = "save_persona" =>
        /\ run.answered
        /\ run.directives =
              <<create_persona_aware_prompt(
                   session_state[run.session].persona[1])>>

\* the analyzed message of the analyzer-only specification and its signal
RawPolarity == typed[1].text.polarity
ElapsedSeconds == typed[1].elapsed
Label == signal[1].emotion.sentiment
Bucket == signal[1].typing_speed

\* C11: detect_emotion labels a text positive iff its polarity is above
\* 0.3, negative iff it is below -0.3 and neutral otherwise; the polarities
\* 0.3 and -0.3 themselves are labelled neutral.
C11_EmotionThresholds ==
    signal # <<>> =>
        /\ Label \in {"positive", "negative", "neutral"}
        /\ Label = "positive" <=> RawPolarity > 300
        /\ Label = "negative" <=> RawPolarity < -300
        /\ RawPolarity \in {300, -300} => Label = "neutral"

C11_Witness ==
    /\ signal # <<>>
    /\ RawPolarity = 300
    /\ Label = "neutral"

\* C12: analyze_typing_speed returns the bucket of max(e, 0) under the
\* half-open intervals [0,2) very_fast, [2,5) fast, [5,15) moderate and
\* [15,inf) slow; a negative elapsed time is bucketed as 0 is.
C12_SpeedBuckets ==
    signal # <<>> =>
        LET e == IF ElapsedSeconds < 0 THEN 0 ELSE ElapsedSeconds
        IN  /\ Bucket = "very_fast" <=> (0 <= e /\ e < 2)
            /\ Bucket = "fast" <=> (2 <= e /\ e < 5)
            /\ Bucket = "moderate" <=> (5 <= e /\ e < 15)
            /\ Bucket = "slow" <=> 15 <= e
            /\ Bucket = analyze_typing_speed(e)

C12_Witness ==
    /\ signal # <<>>
    /\ ElapsedSeconds = 15
    /\ Bucket = "slow"

\* the profile a session holds and the user messages it has processed
Loaded(s) == session_state[s].persona # <<>>
SessionCount(s) == session_state[s].persona[1].interaction_count
UserTurns(s) ==
    Cardinality({ i \in DOMAIN session_state[s].messages :
                    session_state[s].messages[i] = "user" })

\* C13: the interaction_count of the profile of a session starts at 0,
\* grows by exactly 1 with every fold and never decreases, and it equals
\* the number of user messages the session has processed.
C13_CountIsUserTurns ==
    [][ \A s \in Sessions :
          Loaded(s)' =>
             /\ SessionCount(s)' = UserTurns(s)'
             /\ Loaded(s) =>
                   SessionCount(s)' - SessionCount(s) =
                      UserTurns(s)' - UserTurns(s)
             /\ Loaded(s) => SessionCount(s)' >= SessionCount(s)
      ]_vars

\* the profile the session of the last run holds
RunPersona == session_state[run.session].persona[1]

\* C14: persistence round-trips.  After a turn that saved the profile p of
\* the session, the stored document reads back as p in every field, saving
\* what was read stores the same document again, and get_or_create_persona
\* for the user id of p returns a profile equal to p.
C14_RoundTrip ==
    (run.turn /\ run.raised = "none") =>
        LET p == RunPersona
            loaded == json_load(RunFile.document)
            again == save_persona(loaded, files, persona_dir, "ok")
        IN  /\ RunFile = CompleteFile(json_dump(p))
            /\ loaded = p
            /\ loaded.user_id = p.user_id
            /\ loaded.emotional_state.sentiment_history =
                  p.emotional_state.sentiment_history
            /\ loaded.behavioral_patterns = p.behavioral_patterns
            /\ loaded.contextual_preferences = p.contextual_preferences
            /\ loaded.interaction_count = p.interaction_count
            /\ ~again.raised
            /\ again.files = files
            /\ json_load(again.files[get_persona_filepath(p.user_id)].document)
                  = p
            /\ get_or_create_persona(p.user_id, files) =
                  [raised |-> FALSE, makedirs |-> FALSE, persona |-> <<p>>]

C14_Witness ==
    /\ run.turn
    /\ run.raised = "none"
    /\ RunPersona.interaction_count >= 2
    /\ \E i \in DOMAIN RunPersona.emotional_state.sentiment_history :
          RunPersona.emotional_state.sentiment_history[i] < 0
    /\ RunPersona.behavioral_patterns.avg_message_length % 10 # 0
    /\ RunPersona.contextual_preferences.topic_interests # <<>>
    /\ json_load(RunFile.document) = RunPersona

\* C15: update_persona is a pure transformation: the profile passed as
\* argument holds after the call what it held before, and the next profile
\* is a separate value, with the same user_id.
C15_FoldIsPure ==
    run.turn =>
        /\ run.argument_after = run.argument
        /\ RunPersona # run.argument[1]
        /\ RunPersona.user_id = run.argument[1].user_id

\* the signals of the messages of SpecTopics
TopicSignals == { analyze_behavior(m.text, m.elapsed) : m \in TopicInputs }

\* the history h after one more entry x: appended, and the window shifted
\* by one when it was full
Duplicated(h, x) ==
    IF Len(h) < HISTORY_LENGTH THEN h \o <<x>>
    ELSE SubSeq(h, 2, Len(h)) \o <<x>>

\* C16: the fold is not idempotent.  For every signal s, folding s a second
\* time into the profile that already took s gives a different profile: the
\* count grows again and each history gets a duplicate of its newest entry,
\* the window shifting by one once it is full.
C16_NotIdempotent ==
    \A s \in TopicSignals :
        LET once == update_persona(persona, s)
            twice == update_persona(once, s)
            sentiment == once.emotional_state.sentiment_history
            speed == once.behavioral_patterns.speed_history
            length == once.behavioral_patterns.length_history
        IN  /\ twice # once
            /\ twice.interaction_count = once.interaction_count + 1
            /\ twice.emotional_state.sentiment_history =
                  Duplicated(sentiment, sentiment[Len(sentiment)])
            /\ twice.behavioral_patterns.speed_history =
                  Duplicated(speed, speed[Len(speed)])
            /\ twice.behavioral_patterns.length_history =
                  Duplicated(length, length[Len(length)])
            /\ sentiment[Len(sentiment)] = s.emotion.polarity
            /\ length[Len(length)] = s.message_length

\* the same signal was folded twice in a row, into full histories
C16_Witness ==
    /\ Len(folded) >= 2
    /\ folded[Len(folded)] = folded[Len(folded) - 1]
    /\ Len(LengthHistory) = HISTORY_LENGTH
    /\ persona.interaction_count > HISTORY_LENGTH
    /\ \E i \in 1..(HISTORY_LENGTH - 1) :
          LengthHistory[i] # LengthHistory[i + 1]

\* the default values of a profile
IsDefaultProfile(p) ==
    /\ p.interaction_count = 0
    /\ p.communication_style = "neutral"
    /\ p.emotional_state.current_sentiment = "neutral"
    /\ p.emotional_state.sentiment_history = <<>>
    /\ p.behavioral_patterns.speed_history = <<>>
    /\ p.behavioral_patterns.length_history = <<>>
    /\ p.contextual_preferences.topic_interests = <<>>

\* C17: for a user id without a persona file, get_or_create_persona returns
\* the default profile of that user: count 0, neutral style, neutral
\* sentiment, empty histories and no topic interests.
C17_DefaultProfile ==
    /\ \A u \in UserIds :
          files[get_persona_filepath(u)].state = "absent" =>
             LET got == get_or_create_persona(u, files)
             IN  /\ ~got.raised
                 /\ Len(got.persona) = 1
                 /\ got.persona[1].user_id = u
                 /\ IsDefaultProfile(got.persona[1])
    /\ run.found = "absent" =>
          /\ RunPersona.user_id = RunUser
          /\ IsDefaultProfile(RunPersona)

\* a session got the default profile while another user has a saved one
C17_Witness ==
    /\ run.found = "absent"
    /\ IsDefaultProfile(RunPersona)
    /\ \E f \in DOMAIN files : files[f].state = "complete"

\* C18: within every turn the steps run in the order extract, fold,
\* persist, summarize, generate; the summary shown and the directives handed
\* to the answer generator are derived from the profile after the fold of
\* the turn, and the persist comes before the generation.
C18_TurnOrder ==
    run.turn =>
        /\ SubSeq(run.steps, 4, Len(run.steps)) =
              <<"analyze_behavior", "update_persona", "save_persona",
                "get_persona_summary", "get_rag_response">>
        /\ run.sidebar = <<get_persona_summary(RunPersona)>>
        /\ run.directives = <<create_persona_aware_prompt(RunPersona)>>
        /\ RunPersona.interaction_count =
              run.argument[1].interaction_count + 1

\* C19: the label of a signal is the threshold classification of the
\* polarity the same signal carries, which is the raw polarity rounded to
\* two decimals: positive above 0.3, negative below -0.3, else neutral.
C19_LabelMatchesRounded ==
    signal # <<>> =>
        LET rounded == signal[1].emotion.polarity
        IN  /\ rounded = round2(RawPolarity)
            /\ Label = "positive" <=> rounded > 30
            /\ Label = "negative" <=> rounded < -30
            /\ Label = "neutral" <=> (-30 <= rounded /\ rounded <= 30)

\* C20: classifying on the rounded avg_message_length gives what
\* classifying on the exact mean of length_history gives: the rounded
\* average is above 30 iff the mean is, and below 10 iff the mean is, so
\* communication_style is a function of the exact mean.
C20_StyleFromExactMean ==
    LengthHistory # <<>> =>
        LET total == sum(LengthHistory)
            n == Len(LengthHistory)
        IN  /\ AvgLength > 300 <=> total > 30 * n
            /\ AvgLength < 100 <=> total < 10 * n
            /\ Style = "detailed" <=> total > 30 * n
            /\ Style = "brief" <=> total < 10 * n
            /\ Style = "neutral" <=> (10 * n <= total /\ total <= 30 * n)

\* ten messages whose mean length is 30.1 words
C20_Witness ==
    /\ Len(LengthHistory) = HISTORY_LENGTH
    /\ sum(LengthHistory) = 30 * HISTORY_LENGTH + 1
    /\ AvgLength = 301
    /\ Style = "detailed"

====
